---- MODULE Spec2Model ----
(***************************************************************************)
(* Model of the basin hopping driver, src/basinhopping.py (class           *)
(* BasinHopping): construction (__init__), the step loop (run) and one     *)
(* Monte Carlo step (mcStep).                                              *)
(*                                                                         *)
(* Coordinates are in tenths and energies in hundredths, so the move       *)
(* (-0.1, 0) is <<-1, 0>> and the energy 0.01 is 1.  Arrays are objects of *)
(* a heap: a variable that holds an array holds a reference, as in Python, *)
(* so that aliasing and in-place mutation are visible.                     *)
(***************************************************************************)
EXTENDS Integers, Sequences, FiniteSets, TLC

\* ------------------------------------------------------------------ bounds
MaxCoord == 1
MaxE == 1
MaxTests == 1
MaxEvents == 2
MaxSteps == 2
NumRefs == 4

\* ------------------------------------------------------- values and heap
Refs == 1..NumRefs
NoRef == 0
NoE == -1
Free == <<>>
\* the arrays and energies an unconstrained collaborator produces (the second
\* coordinate is held at 0: every scenario of interest moves along x)
Configs == {<<x, 0>> : x \in 0..MaxCoord}
Energies == 0..MaxE

VARIABLES
  pc,               \* position in __init__ / run / mcStep
  heap,             \* Refs -> array value, or Free
  callerCoords,     \* the coords argument of __init__ (the caller's array)
  potential, takeStep, quenchRoutine,      \* the collaborators
  storage,          \* TRUE iff a storage sink was passed
  nometropolis,
  acceptTestsArg,   \* the acceptTests argument: the caller's list
  eventsArg,        \* the list the caller passed as event_after_step
  callerLists,      \* the two lists of the caller as they were before any __init__
  thrown,           \* the exception a collaborator raised inside __init__
  error,            \* the exception that left __init__ to its caller
  acceptTests,      \* self.acceptTests
  event_after_step, \* self.event_after_step
  coords,           \* self.coords (a reference)
  markovE,          \* self.markovE
  stepnum,          \* self.stepnum
  nsteps, istep,    \* run: the argument and the loop position
  acceptstep, newcoords, newE,             \* run: locals
  Equench_old, wcoords, qcoords, Equench,  \* mcStep: locals (wcoords is its coords)
  ti, ei,           \* position in the loops over acceptTests / event_after_step
  calls,            \* collaborator calls of the current step (or of __init__)
  stepStart,        \* the Markov state when the current step began
  runStart,         \* the Markov state when the current run began, kept while allFalse
  storageCalls, nAccepted, mcCalls,        \* counts since construction
  sumN,             \* the sum of n over the calls run(n) that have returned
  eventCalls,       \* calls of each observer in the current run
  allFalse,         \* no accept test has returned true in the current run
  markovQuench,     \* what the quench returned whose result was last made the Markov state
  lastStored        \* the arguments of the last storage call

vars == <<pc, heap, callerCoords, potential, takeStep, quenchRoutine, storage,
          nometropolis, acceptTestsArg, eventsArg, callerLists, thrown, error,
          acceptTests, event_after_step, coords,
          markovE, stepnum, nsteps, istep, acceptstep, newcoords, newE,
          Equench_old, wcoords, qcoords, Equench, ti, ei, calls,
          stepStart, runStart, storageCalls, nAccepted, mcCalls, sumN,
          eventCalls, allFalse, markovQuench, lastStored>>

failure == <<thrown, error>>

\* the variables set at construction and never written by run or mcStep
config == <<callerCoords, potential, takeStep, quenchRoutine, storage,
            nometropolis, acceptTestsArg, eventsArg, callerLists, failure,
            acceptTests, event_after_step>>
runLocals == <<nsteps, istep, acceptstep, newcoords, newE>>
mcLocals == <<Equench_old, wcoords, qcoords, Equench, ti>>
ghosts == <<markovQuench, lastStored>>
counts == <<storageCalls, nAccepted, mcCalls, sumN, eventCalls, allFalse, ghosts>>

\* ------------------------------------------------------------ object model
SeqsUpTo(S, n) == UNION {[1..k -> S] : k \in 0..n}

Live(refs) == refs \ {NoRef}

\* a new array object: the lowest reference that is not in use
Alloc(live) == CHOOSE r \in Refs : r \notin live /\ \A s \in Refs \ live : r <= s

\* arrays no variable refers to any more are dropped
Collect(h, live) == [r \in Refs |-> IF r \in live THEN h[r] ELSE Free]

Markov == [x |-> heap[coords], E |-> markovE]

Forgotten == [x |-> Free, E |-> NoE]

\* one collaborator call: which one, its position in its list, its arguments
\* (and, for an accept test, acc is what it returned)
Call(op, i, eold, e, x, acc) ==
  [op |-> op, i |-> i, Eold |-> eold, E |-> e, x |-> x, acc |-> acc]

\* ----------------------------------------------------------- collaborators
Add(x, d) == <<x[1] + d[1], x[2] + d[2]>>

Quadratic(x) == x[1] * x[1] + x[2] * x[2]

\* potential.getEnergy(x): the values it may return
getEnergy(pot, x) == IF pot = "quadratic" THEN {Quadratic(x)} ELSE Energies

\* takeStep(x): the values the array may hold after the in-place move
TakeStepWrites(ts, x) ==
  CASE ts = "add_neg" -> {Add(x, <<-1, 0>>)}
    [] ts = "add_pos" -> {Add(x, <<1, 0>>)}
    [] OTHER -> Configs

\* quenchRoutine(x, getEnergyGradient): the (coordinates, energy) it may return
QuenchReturns(q, pot, x) ==
  IF q = "identity"
  THEN {[x |-> x, E |-> e] : e \in getEnergy(pot, x)}
  ELSE {[x |-> <<0, 0>>, E |-> e] : e \in getEnergy(pot, <<0, 0>>)}

\* an accept test called as test(Eold, Enew, new_coords): the values it may return
TestReturns(test, Eold, Enew) ==
  CASE test = "descent" -> {Enew <= Eold}
    [] test = "metropolis" -> IF Enew <= Eold THEN {TRUE} ELSE BOOLEAN
    [] OTHER -> BOOLEAN

\* the exceptions an unconstrained potential may raise
Exceptions == {"ValueError", "FloatingPointError"}

\* only an unconstrained collaborator may raise: a caller's own test or event,
\* or a potential of which nothing is known
MayRaise(f) == f = "any"

\* the potential E(x,y) = x^2 + y^2 with the identity quench and a fixed move, or
\* with a quench that minimizes it after an unconstrained move; and an
\* unconstrained potential with the identity quench and a fixed move
Collaborators ==
  { [potential |-> "quadratic", quenchRoutine |-> "identity", takeStep |-> "add_neg"],
    [potential |-> "quadratic", quenchRoutine |-> "identity", takeStep |-> "add_pos"],
    [potential |-> "quadratic", quenchRoutine |-> "minimize", takeStep |-> "any"],
    [potential |-> "any", quenchRoutine |-> "identity", takeStep |-> "add_neg"] }

\* -------------------------------------------------------------------- Init
\* entry of __init__, the arguments bound
Init ==
  /\ pc = "init"
  /\ callerCoords = 1
  /\ \E x \in Configs : heap = [r \in Refs |-> IF r = 1 THEN x ELSE Free]
  /\ \E c \in Collaborators :
       /\ potential = c.potential
       /\ takeStep = c.takeStep
       /\ quenchRoutine = c.quenchRoutine
  /\ storage \in BOOLEAN
  /\ nometropolis \in BOOLEAN
  /\ acceptTestsArg \in SeqsUpTo({"descent", "any"}, MaxTests)
  /\ \E n \in 0..MaxEvents : eventsArg = [j \in 1..n |-> "any"]
  /\ callerLists = [tests |-> acceptTestsArg, events |-> eventsArg]
  /\ thrown = "none" /\ error = "none"
  /\ acceptTests = <<>> /\ event_after_step = <<>>
  /\ coords = NoRef /\ markovE = NoE /\ stepnum = 0
  /\ nsteps = 0 /\ istep = 0
  /\ acceptstep = FALSE /\ newcoords = NoRef /\ newE = NoE
  /\ Equench_old = NoE /\ wcoords = NoRef /\ qcoords = NoRef /\ Equench = NoE
  /\ ti = 0 /\ ei = 0
  /\ calls = <<>>
  /\ stepStart = Forgotten /\ runStart = Forgotten
  /\ storageCalls = 0 /\ nAccepted = 0 /\ mcCalls = 0 /\ sumN = 0
  /\ eventCalls = [j \in 1..Len(eventsArg) |-> 0]
  /\ allFalse = TRUE
  /\ markovQuench = Forgotten /\ lastStored = Forgotten

\* ---------------------------------------------------------------- __init__
\* copy.copy(coords): a new array with the same contents
Copy(h, live, r) ==
  LET n == Alloc(live) IN [ref |-> n, heap |-> [h EXCEPT ![n] = h[r]]]

\* (mutant) the Metropolis test put in front of the caller's tests
InitAcceptTests_first(arg, nomet) == IF ~nomet THEN <<"metropolis">> \o arg ELSE arg

\* lines 72, 79-81: the caller's tests, and the Metropolis test appended to them
InitAcceptTests(arg, nomet) == IF ~nomet THEN Append(arg, "metropolis") ELSE arg

\* (mutant) the storage call of only the quenched structures: the first call,
\* which opens a log, is dropped
Store_skipFirst(cs, st, e, x) ==
  IF st /\ cs # <<>> /\ cs[Len(cs)].op # "getEnergy"
  THEN Append(cs, Call("storage", 0, NoE, e, x, FALSE)) ELSE cs

\* self.storage(e, x), made only if(self.storage)
Store(cs, st, e, x) == IF st THEN Append(cs, Call("storage", 0, NoE, e, x, FALSE)) ELSE cs

\* the calls of one collaborator among cs
CallsOf(cs, op) == SelectSeq(cs, LAMBDA c : c.op = op)

\* how many storage calls were made between the logs cs and cs2
Stored(cs, cs2) == Len(CallsOf(cs2, "storage")) - Len(CallsOf(cs, "storage"))

\* the arguments of the last storage call, the log having grown from cs to cs2
LastStored(old, cs, cs2) ==
  IF Stored(cs, cs2) > 0
  THEN LET st == CallsOf(cs2, "storage") IN [x |-> st[Len(st)].x, E |-> st[Len(st)].E]
  ELSE old

\* the array a quench returns: the identity quench hands back its argument, the
\* minimizing one a new array
QuenchObject(q, h, live, in, x) ==
  IF q = "identity"
  THEN [ref |-> in, heap |-> [h EXCEPT ![in] = x]]
  ELSE LET n == Alloc(live) IN [ref |-> n, heap |-> [h EXCEPT ![n] = x]]

\* (mutant) self.acceptTests = acceptTests: the caller's list object itself
CopyList_alias(obj) == obj

\* lines 71-72, copy.copy of a list: a new list object with the same elements
CopyList(obj) == "driver"

\* lines 67-83; the append of line 81 writes to the list object self.acceptTests
\* names, and the caller sees it if that object is the caller's
InitFields ==
  /\ pc = "init"
  /\ LET c == Copy(heap, Live({callerCoords}), callerCoords) IN
       /\ coords' = c.ref
       /\ heap' = c.heap
  /\ event_after_step' = eventsArg
  /\ acceptTests' = InitAcceptTests(acceptTestsArg, nometropolis)
  /\ acceptTestsArg' = IF CopyList("caller") = "caller" THEN acceptTests'
                                                       ELSE acceptTestsArg
  /\ stepnum' = 0
  /\ pc' = "init_energy"
  /\ UNCHANGED <<callerCoords, potential, takeStep, quenchRoutine, storage,
                 nometropolis, eventsArg, callerLists, failure, markovE,
                 runLocals, mcLocals, ei, calls, stepStart, runStart, counts>>

\* lines 88-91
InitEnergy ==
  /\ pc = "init_energy"
  /\ \E potel \in getEnergy(potential, heap[coords]) :
       calls' = Store(Append(calls, Call("getEnergy", 0, NoE, potel, heap[coords], FALSE)),
                      storage, potel, heap[coords])
  /\ storageCalls' = storageCalls + Stored(calls, calls')
  /\ lastStored' = LastStored(lastStored, calls, calls')
  /\ pc' = "init_quench"
  /\ UNCHANGED <<heap, config, coords, markovE, stepnum, runLocals, mcLocals, ei,
                 stepStart, runStart, nAccepted, mcCalls, sumN, eventCalls, allFalse,
                 markovQuench>>

\* lines 96-105
InitQuench ==
  /\ pc = "init_quench"
  /\ \E r \in QuenchReturns(quenchRoutine, potential, heap[coords]) :
       LET o == QuenchObject(quenchRoutine, heap, Live({callerCoords, coords}), coords, r.x)
           h == Collect(o.heap, Live({callerCoords, o.ref}))
       IN /\ coords' = o.ref
          /\ markovE' = r.E
          /\ heap' = h
          /\ calls' = Store(Append(calls, Call("quench", 0, NoE, r.E, r.x, FALSE)),
                            storage, r.E, h[o.ref])
          /\ runStart' = [x |-> h[o.ref], E |-> r.E]
          /\ markovQuench' = [x |-> r.x, E |-> r.E]
  /\ storageCalls' = storageCalls + Stored(calls, calls')
  /\ lastStored' = LastStored(lastStored, calls, calls')
  /\ pc' = "idle"
  /\ UNCHANGED <<config, stepnum, runLocals, mcLocals, ei, stepStart,
                 nAccepted, mcCalls, sumN, eventCalls, allFalse>>

\* (mutant) the body of __init__ in a try whose handler raises an error of its own
Propagate_wrapped(exc) == "InvalidInitialStateError"

\* lines 85-102 have no try/except: what a collaborator raises is what leaves
\* __init__
Propagate(exc) == exc

\* an exception leaves __init__: the caller gets no driver
InitRaise(op) ==
  /\ \E exc \in Exceptions : thrown' = exc /\ error' = Propagate(exc)
  /\ pc' = "init_failed"
  /\ calls' = Append(calls, Call(op, 0, NoE, NoE, Free, FALSE))
  /\ coords' = NoRef
  /\ heap' = Collect(heap, Live({callerCoords}))
  /\ UNCHANGED <<callerCoords, potential, takeStep, quenchRoutine, storage,
                 nometropolis, acceptTestsArg, eventsArg, callerLists, acceptTests,
                 event_after_step, markovE, stepnum, runLocals, mcLocals, ei,
                 stepStart, runStart, counts>>

\* line 88: potential.getEnergy raises
InitEnergyRaises ==
  /\ pc = "init_energy"
  /\ MayRaise(potential)
  /\ InitRaise("getEnergy_raises")

\* line 96: the quench, or the potential it calls, raises
InitQuenchRaises ==
  /\ pc = "init_quench"
  /\ MayRaise(potential)
  /\ InitRaise("init_quench_raises")

\* lines 59-65: the caller constructs another driver from the same lists, the
\* same starting array and the same collaborators; the driver before it is dropped
NewDriver ==
  /\ pc = "idle"
  /\ pc' = "init"
  /\ storage' \in BOOLEAN
  /\ nometropolis' \in BOOLEAN
  /\ heap' = Collect(heap, Live({callerCoords}))
  /\ acceptTests' = <<>> /\ event_after_step' = <<>>
  /\ coords' = NoRef /\ markovE' = NoE /\ stepnum' = 0
  /\ nsteps' = 0 /\ istep' = 0
  /\ acceptstep' = FALSE /\ newcoords' = NoRef /\ newE' = NoE
  /\ Equench_old' = NoE /\ wcoords' = NoRef /\ qcoords' = NoRef /\ Equench' = NoE
  /\ ti' = 0 /\ ei' = 0
  /\ calls' = <<>>
  /\ stepStart' = Forgotten /\ runStart' = Forgotten
  /\ storageCalls' = 0 /\ nAccepted' = 0 /\ mcCalls' = 0 /\ sumN' = 0
  /\ eventCalls' = [j \in 1..Len(eventsArg) |-> 0]
  /\ allFalse' = TRUE
  /\ markovQuench' = Forgotten /\ lastStored' = Forgotten
  /\ UNCHANGED <<callerCoords, potential, takeStep, quenchRoutine, acceptTestsArg,
                 eventsArg, callerLists, failure>>

\* --------------------------------------------------------------------- run
\* a call run(n) on the constructed driver (a driver whose run was aborted by an
\* exception is not called again)
Run ==
  /\ pc = "idle"
  /\ \E n \in 0..(MaxSteps - stepnum) : nsteps' = n
  /\ istep' = 0
  /\ runStart' = Markov
  /\ eventCalls' = [j \in 1..Len(event_after_step) |-> 0]
  /\ allFalse' = TRUE
  /\ calls' = <<>>
  /\ pc' = "loop"
  /\ UNCHANGED <<heap, config, coords, markovE, stepnum, acceptstep, newcoords, newE,
                 mcLocals, ei, stepStart, storageCalls, nAccepted, mcCalls, sumN,
                 ghosts>>

\* (mutant) the step number taken from the loop variable: it restarts in each run
NextStepnum_restart(n, i) == i + 1

\* line 110: the step number after one more iteration (i is istep)
NextStepnum(n, i) == n + 1

\* lines 109-111: one more iteration, up to the call of mcStep
RunIter ==
  /\ pc = "loop"
  /\ istep < nsteps
  /\ istep' = istep + 1
  /\ stepnum' = NextStepnum(stepnum, istep)
  /\ mcCalls' = mcCalls + 1
  /\ Equench_old' = markovE
  /\ stepStart' = Markov
  /\ calls' = <<>>
  /\ pc' = "mc_takeStep"
  /\ UNCHANGED <<heap, config, coords, markovE, nsteps, acceptstep, newcoords, newE,
                 wcoords, qcoords, Equench, ti, ei, runStart, storageCalls, nAccepted,
                 sumN, eventCalls, allFalse, ghosts>>

\* line 109: the loop is exhausted and run returns
RunReturn ==
  /\ pc = "loop"
  /\ ~(istep < nsteps)
  /\ sumN' = sumN + nsteps
  /\ pc' = "idle"
  /\ UNCHANGED <<heap, config, coords, markovE, stepnum, runLocals, mcLocals, ei,
                 calls, stepStart, runStart, storageCalls, nAccepted, mcCalls,
                 eventCalls, allFalse, ghosts>>

\* ------------------------------------------------------------------ mcStep
\* (mutant) coords = coordsold: the working array is the Markov array itself
WorkingCopy_alias(h, live, r) == [ref |-> r, heap |-> h]

\* line 126: coordsold.copy(), the working copy
WorkingCopy(h, live, r) == Copy(h, live, r)

\* lines 126-127
McTakeStep ==
  /\ pc = "mc_takeStep"
  /\ LET w == WorkingCopy(heap, Live({callerCoords, coords}), coords) IN
       \E v \in TakeStepWrites(takeStep, w.heap[w.ref]) :
         /\ wcoords' = w.ref
         /\ heap' = [w.heap EXCEPT ![w.ref] = v]
         /\ calls' = Append(calls, Call("takeStep", 0, NoE, NoE, v, FALSE))
  /\ pc' = "mc_quench"
  /\ UNCHANGED <<config, coords, markovE, stepnum, runLocals, Equench_old, qcoords,
                 Equench, ti, ei, stepStart, runStart, counts>>

\* (mutant) acceptstep = False before the loop of the tests
InitialAccept_false == FALSE

\* line 138: acceptstep = True before the loop of the tests
InitialAccept == TRUE

\* lines 132, 138
McQuench ==
  /\ pc = "mc_quench"
  /\ \E r \in QuenchReturns(quenchRoutine, potential, heap[wcoords]) :
       LET o == QuenchObject(quenchRoutine, heap, Live({callerCoords, coords, wcoords}),
                             wcoords, r.x)
       IN /\ qcoords' = o.ref
          /\ heap' = o.heap
          /\ Equench' = r.E
          /\ calls' = Append(calls, Call("quench", 0, NoE, r.E, r.x, FALSE))
  /\ acceptstep' = InitialAccept
  /\ ti' = 1
  /\ pc' = "mc_tests"
  /\ UNCHANGED <<config, coords, markovE, stepnum, nsteps, istep, newcoords, newE,
                 Equench_old, wcoords, ei, stepStart, runStart, counts>>

\* (mutant) a break after the first test that returns false
MoreTests_shortCircuit(i, n, acc) == i <= n /\ acc

\* line 139, "for test in self.acceptTests": the loop has a test left to call
MoreTests(i, n, acc) == i <= n

\* (mutant) acceptstep = test(...): the last test decides
TestUpdate_last(acc, r) == r

\* (mutant) "if test(...)" for "if not test(...)"
TestUpdate_inverted(acc, r) == IF r THEN FALSE ELSE acc

\* lines 140-141: the flag after a test returned r
TestUpdate(acc, r) == IF ~r THEN FALSE ELSE acc

\* lines 139-141: the next accept test returns
McTest ==
  /\ pc = "mc_tests"
  /\ MoreTests(ti, Len(acceptTests), acceptstep)
  /\ \E r \in TestReturns(acceptTests[ti], Equench_old, Equench) :
       /\ acceptstep' = TestUpdate(acceptstep, r)
       /\ allFalse' = (allFalse /\ ~r)
       /\ runStart' = IF allFalse /\ ~r THEN runStart ELSE Forgotten
       /\ calls' = Append(calls, Call("test", ti, Equench_old, Equench, heap[qcoords], r))
  /\ ti' = ti + 1
  /\ UNCHANGED <<pc, heap, config, coords, markovE, stepnum, nsteps, istep, newcoords,
                 newE, Equench_old, wcoords, qcoords, Equench, ei, stepStart,
                 storageCalls, nAccepted, mcCalls, sumN, eventCalls, ghosts>>

\* an exception leaves mcStep and run: their locals are gone, the driver stays
Raise(op, i) ==
  /\ pc' = "raised"
  /\ calls' = Append(calls, Call(op, i, NoE, NoE, Free, FALSE))
  /\ heap' = Collect(heap, Live({callerCoords, coords}))
  /\ acceptstep' = FALSE /\ newcoords' = NoRef /\ newE' = NoE
  /\ Equench_old' = NoE /\ wcoords' = NoRef /\ qcoords' = NoRef /\ Equench' = NoE
  /\ ti' = 0 /\ ei' = 0
  /\ UNCHANGED <<config, coords, markovE, stepnum, nsteps, istep, stepStart,
                 runStart, counts>>

\* line 132: the quench, or the potential it calls, raises
McQuenchRaises ==
  /\ pc = "mc_quench"
  /\ MayRaise(potential)
  /\ Raise("quench_raises", 0)

\* line 140: the next accept test raises
McTestRaises ==
  /\ pc = "mc_tests"
  /\ MoreTests(ti, Len(acceptTests), acceptstep)
  /\ MayRaise(acceptTests[ti])
  /\ Raise("test_raises", ti)

\* line 146 and the assignment of line 111
McReturn ==
  /\ pc = "mc_tests"
  /\ ~MoreTests(ti, Len(acceptTests), acceptstep)
  /\ newcoords' = qcoords
  /\ newE' = Equench
  /\ heap' = Collect(heap, Live({callerCoords, coords, qcoords}))
  /\ Equench_old' = NoE /\ wcoords' = NoRef /\ qcoords' = NoRef /\ Equench' = NoE
  /\ ti' = 0
  /\ pc' = "accept"
  /\ UNCHANGED <<config, coords, markovE, stepnum, nsteps, istep, acceptstep, ei,
                 calls, stepStart, runStart, counts>>

\* ------------------------------------------------------- run, after mcStep
\* (mutant) the assignments of lines 116-117 made outside the if of line 113
Commit_always(acc, new, old) == new

\* lines 113, 116-117: the new value of a field of the Markov state
Commit(acc, new, old) == IF acc THEN new ELSE old

\* (mutant) self.markovE = newE made outside the if of line 113
CommitE_always(acc, new, old) == new

\* lines 113, 117: the new value of self.markovE
CommitE(acc, new, old) == Commit(acc, new, old)

\* (mutant) self.storage(self.markovE, self.coords) before lines 116-117: the
\* state that is being replaced is stored
StoreAccepted_stale(cs, acc, st, e, x) ==
  IF acc THEN Store(cs, st, markovE, heap[coords]) ELSE cs

\* (mutant) the storage call of line 115 made outside the if of line 113
StoreAccepted_always(cs, acc, st, e, x) == Store(cs, st, e, x)

\* lines 113-115: the storage call of an accepted step
StoreAccepted(cs, acc, st, e, x) == IF acc THEN Store(cs, st, e, x) ELSE cs

\* lines 113-117
RunAccept ==
  /\ pc = "accept"
  /\ calls' = StoreAccepted(calls, acceptstep, storage, newE, heap[newcoords])
  /\ storageCalls' = storageCalls + Stored(calls, calls')
  /\ coords' = Commit(acceptstep, newcoords, coords)
  /\ markovE' = CommitE(acceptstep, newE, markovE)
  /\ nAccepted' = IF acceptstep THEN nAccepted + 1 ELSE nAccepted
  /\ markovQuench' = IF acceptstep
                     THEN LET q == CallsOf(calls, "quench")[1] IN [x |-> q.x, E |-> q.E]
                     ELSE markovQuench
  /\ lastStored' = LastStored(lastStored, calls, calls')
  /\ heap' = Collect(heap, Live({callerCoords, coords', newcoords}))
  /\ ei' = 1
  /\ pc' = "events"
  /\ UNCHANGED <<config, stepnum, runLocals, mcLocals, stepStart, runStart,
                 mcCalls, sumN, eventCalls, allFalse>>

\* (mutant) the loop of lines 118-119 placed before the if of line 113: the
\* events see the Markov state the step began with
EventArgs_before(mE, x, nE, nx, acc) == [E |-> stepStart.E, x |-> stepStart.x, acc |-> acc]

\* (mutant) the event is given the step's quench result, accepted or not
EventArgs_candidate(mE, x, nE, nx, acc) == [E |-> nE, x |-> nx, acc |-> acc]

\* line 119: the arguments of an event
EventArgs(mE, x, nE, nx, acc) == [E |-> mE, x |-> x, acc |-> acc]

\* lines 118-119: the next event returns
RunEvent ==
  /\ pc = "events"
  /\ ei <= Len(event_after_step)
  /\ LET a == EventArgs(markovE, heap[coords], newE, heap[newcoords], acceptstep) IN
       calls' = Append(calls, Call("event", ei, NoE, a.E, a.x, a.acc))
  /\ eventCalls' = [eventCalls EXCEPT ![ei] = @ + 1]
  /\ ei' = ei + 1
  /\ UNCHANGED <<pc, heap, config, coords, markovE, stepnum, runLocals, mcLocals,
                 stepStart, runStart, storageCalls, nAccepted, mcCalls, sumN,
                 allFalse, ghosts>>

\* line 119: the next event raises
RunEventRaises ==
  /\ pc = "events"
  /\ ei <= Len(event_after_step)
  /\ MayRaise(event_after_step[ei])
  /\ Raise("event_raises", ei)

\* line 118: the events are exhausted; back to line 109
RunNext ==
  /\ pc = "events"
  /\ ~(ei <= Len(event_after_step))
  /\ heap' = Collect(heap, Live({callerCoords, coords}))
  /\ acceptstep' = FALSE /\ newcoords' = NoRef /\ newE' = NoE
  /\ ei' = 0
  /\ calls' = <<>>
  /\ pc' = "loop"
  /\ UNCHANGED <<config, coords, markovE, stepnum, nsteps, istep, mcLocals, stepStart,
                 runStart, counts>>

Next ==
  \/ InitFields \/ InitEnergy \/ InitEnergyRaises \/ InitQuench \/ InitQuenchRaises
  \/ NewDriver
  \/ Run \/ RunIter \/ RunReturn
  \/ McTakeStep \/ McQuench \/ McQuenchRaises \/ McTest \/ McTestRaises \/ McReturn
  \/ RunAccept \/ RunEvent \/ RunEventRaises \/ RunNext

Spec == Init /\ [][Next]_vars

\* ------------------------------------------------------ observation points
\* the quench call of the current step and what it returned: the candidate
QuenchCall == CallsOf(calls, "quench")[1]

Candidate == [x |-> QuenchCall.x, E |-> QuenchCall.E]

\* the results the accept tests of the current step have returned
TestResults == CallsOf(calls, "test")

AllTrue == \A k \in 1..Len(TestResults) : TestResults[k].acc

\* mcStep has been entered and the run has not yet acted on its result
InMcStep == pc \in {"mc_takeStep", "mc_quench", "mc_tests", "accept"}

\* the step is complete: decision applied, every event called
StepDone == pc = "events" /\ ~(ei <= Len(event_after_step))

\* __init__ has returned and run has not been called yet
Constructed == pc = "idle" /\ calls # <<>>

\* a call run(n) has returned normally and no other has been made since
RunDone == pc = "idle" /\ calls = <<>>

\* ------------------------------------------------------------------ claims
\* C1: idempotent rejection. When run(n) returns on a driver that has at least
\* one accept test, and every accept test call of that run returned false, the
\* Markov configuration and energy are those of the moment run was called.
C1_IdempotentRejection ==
  (RunDone /\ Len(acceptTests) > 0 /\ allFalse) => Markov = runStart

\* a run of two steps has returned, each of whose tests returned false, on a
\* driver with two accept tests
C1_Witness ==
  /\ RunDone /\ Len(acceptTests) = 2 /\ allFalse
  /\ nsteps = 2 /\ istep = 2

\* the Markov state the decision of the current step calls for
Decided == IF AllTrue THEN Candidate ELSE stepStart

LastCall == calls[Len(calls)]

\* C2 as stated: whenever an exception of an accept test or of an event has left
\* run, the Markov configuration and energy are those the aborted step began with.
C2_Original == pc = "raised" => Markov = stepStart

\* C2, amended: an exception of an accept test or of an event leaves run at once
\* (no further test, event or step follows). After an exception of an accept
\* test the Markov state is the one the aborted step began with; after an
\* exception of an event it is the state after the step's decision: unchanged if
\* the step was rejected, the candidate if it was accepted.
C2_Amended ==
  /\ (calls # <<>> /\ LastCall.op \in {"test_raises", "event_raises"}) => pc = "raised"
  /\ pc = "raised" =>
       /\ ~ENABLED (RunIter \/ McTest \/ RunEvent)
       /\ LastCall.op = "test_raises" => Markov = stepStart
       /\ LastCall.op = "event_raises" => Markov = Decided

\* the second event of an accepted step, whose candidate differs from the
\* Markov state, has raised
C2_Witness ==
  /\ pc = "raised" /\ LastCall.op = "event_raises" /\ LastCall.i = 2
  /\ AllTrue /\ Candidate # stepStart /\ Len(acceptTests) > 0

EventCalls == CallsOf(calls, "event")

\* C3: in a step every event is called once, in order, with the Markov energy
\* and configuration as they are after the step's decision (the candidate if
\* the step was accepted, the previous state if not) and with the step's
\* accepted flag; when run(n) returns every event has been called n times.
C3_EventCalls ==
  /\ pc = "events" =>
       /\ Len(EventCalls) = ei - 1
       /\ \A k \in 1..Len(EventCalls) :
            /\ EventCalls[k].i = k
            /\ EventCalls[k].E = Decided.E
            /\ EventCalls[k].x = Decided.x
            /\ EventCalls[k].acc = AllTrue
  /\ StepDone =>
       /\ Len(EventCalls) = Len(event_after_step)
       /\ \A j \in 1..Len(event_after_step) : eventCalls[j] = istep
  /\ RunDone => \A j \in 1..Len(event_after_step) : eventCalls[j] = nsteps

\* both events have been called in the second step of a run, a rejected step
\* whose candidate differs from the Markov state
C3_Witness ==
  /\ StepDone /\ Len(event_after_step) = 2 /\ istep = 2
  /\ ~AllTrue /\ Candidate # stepStart

\* C4: with a storage sink, two storage calls are made during construction and
\* one in each accepted step, none in a rejected step: between steps the
\* number of storage calls is 2 + the number of accepted steps.
C4_StorageCount ==
  storage =>
    /\ Constructed => storageCalls = 2
    /\ pc \in {"idle", "loop"} => storageCalls = 2 + nAccepted
    /\ StepDone => Len(CallsOf(calls, "storage")) = IF acceptstep THEN 1 ELSE 0

\* run has returned after an accepted and a rejected step, with a storage sink
C4_Witness == storage /\ RunDone /\ stepnum = 2 /\ nAccepted = 1

\* C5: when the only accept test is "new energy <= old energy", the Markov
\* energy is never above the Markov energy the current (or last) step began with.
C5_Monotone ==
  (acceptTests = <<"descent">> /\ stepStart # Forgotten) => markovE <= stepStart.E

\* the second step has lowered the Markov energy
C5_Witness ==
  /\ acceptTests = <<"descent">> /\ StepDone /\ stepnum = 2
  /\ markovE < stepStart.E

\* C6: the flag mcStep returns is the conjunction of what the accept tests
\* returned in the step, each test having been called once.
C6_Conjunction ==
  /\ pc = "mc_tests" => (acceptstep <=> AllTrue) /\ Len(TestResults) = ti - 1
  /\ pc = "accept" => (acceptstep <=> AllTrue) /\ Len(TestResults) = Len(acceptTests)

\* mcStep has returned after a first test that returned false and a second
\* that returned true
C6_Witness ==
  /\ pc = "accept" /\ Len(acceptTests) = 2
  /\ ~TestResults[1].acc /\ TestResults[2].acc

\* the scenario of C7: E(x,y) = x^2 + y^2, the identity quench, the start (0,0),
\* the move (-0.1, 0) and the single test "new energy <= old energy"
Scenario7 ==
  /\ potential = "quadratic" /\ quenchRoutine = "identity" /\ takeStep = "add_neg"
  /\ heap[callerCoords] = <<0, 0>>
  /\ acceptTests = <<"descent">>

\* C7 as stated: the first candidate, of energy 0.01, is accepted, and after
\* run(1) the Markov state is ((-0.1, 0), 0.01).
C7_Original ==
  Scenario7 =>
    /\ (pc = "accept" /\ stepnum = 1) =>
         newE = 1 /\ heap[newcoords] = <<-1, 0>> /\ acceptstep
    /\ (RunDone /\ nsteps = 1 /\ stepnum = 1) => Markov = [x |-> <<-1, 0>>, E |-> 1]

\* C7, amended: the first candidate is (-0.1, 0) with energy 0.01, which is above
\* the Markov energy 0, so it is rejected, and after run(1) the Markov state is
\* still ((0, 0), 0).
C7_Amended ==
  Scenario7 =>
    /\ (pc = "accept" /\ stepnum = 1) =>
         newE = 1 /\ heap[newcoords] = <<-1, 0>> /\ ~acceptstep
    /\ (RunDone /\ nsteps = 1 /\ stepnum = 1) => Markov = [x |-> <<0, 0>>, E |-> 0]

\* run(1) has returned in the scenario
C7_Witness == Scenario7 /\ RunDone /\ nsteps = 1 /\ stepnum = 1

\* C8: the step counter is 0 after construction, counts the calls of mcStep, and
\* is the sum of n over the calls run(n) that have returned plus the iterations
\* of the call in progress; a call run(n) returns after n iterations.
C8_StepCounter ==
  /\ (pc \in {"init_energy", "init_quench"} \/ Constructed) => stepnum = 0
  /\ pc # "init" => stepnum = mcCalls
  /\ pc \notin {"init", "idle", "raised"} => stepnum = sumN + istep
  /\ pc = "idle" => stepnum = sumN /\ istep = nsteps

\* run(1) has returned on a driver that had made a step in an earlier call
C8_Witness == RunDone /\ nsteps = 1 /\ sumN = 2

\* C9: the move acts on an array of its own, which is neither the Markov array
\* nor the caller's, and from the entry of mcStep to its return the Markov
\* configuration and energy are those the step began with; they are still so
\* after run has acted on a rejected step.
C9_Isolation ==
  /\ pc \in {"mc_quench", "mc_tests"} =>
       wcoords \notin {coords, callerCoords, NoRef}
  /\ InMcStep => Markov = stepStart
  /\ (pc = "events" /\ ~acceptstep) => Markov = stepStart

\* the move has written into the working array a configuration that differs
\* from the Markov configuration
C9_Witness == pc = "mc_quench" /\ heap[wcoords] # heap[coords]

\* C10: construction calls, in this order, the potential's energy of the copied
\* starting configuration, the storage sink (if any) with that energy and
\* configuration, the quench, and the storage sink (if any) with the quench's
\* result, which is then the Markov state; it calls no accept test and no event.
C10_Construction ==
  Constructed =>
    LET x0 == heap[callerCoords] IN
    /\ coords # callerCoords
    /\ [k \in 1..Len(calls) |-> calls[k].op] =
         IF storage THEN <<"getEnergy", "storage", "quench", "storage">>
                    ELSE <<"getEnergy", "quench">>
    /\ calls[1].x = x0
    /\ storage =>
         /\ calls[2].E = calls[1].E /\ calls[2].x = x0
         /\ calls[4].E = calls[3].E /\ calls[4].x = calls[3].x
    /\ Markov = Candidate

\* a driver with a storage sink has been constructed, its quench having moved
\* the starting configuration
C10_Witness ==
  Constructed /\ storage /\ Candidate.x # heap[callerCoords]

\* C11: unless nometropolis, self.acceptTests is the caller's tests in their
\* order followed by the one Metropolis test, else it is the caller's tests; and
\* in a step the tests are called in the order of that list, so the Metropolis
\* test is called after every test of the caller.
C11_MetropolisLast ==
  pc # "init" =>
    /\ Len(acceptTests) = Len(acceptTestsArg) + (IF nometropolis THEN 0 ELSE 1)
    /\ \A k \in 1..Len(acceptTestsArg) : acceptTests[k] = acceptTestsArg[k]
    /\ ~nometropolis => acceptTests[Len(acceptTests)] = "metropolis"
    /\ LET ts == TestResults IN
         \A k \in 1..Len(ts) :
           /\ ts[k].i = k
           /\ (acceptTests[k] = "metropolis") = (~nometropolis /\ k = Len(acceptTests))

\* mcStep has returned after the test of the caller and then the Metropolis
\* test were called
C11_Witness ==
  /\ pc = "accept" /\ ~nometropolis /\ Len(acceptTestsArg) = 1
  /\ Len(TestResults) = 2

\* between steps: after construction, after a step, after a run, after an
\* aborted run
BetweenSteps == pc \in {"idle", "loop", "raised"} \/ StepDone

\* C12: between steps the Markov energy and the Markov configuration are the
\* energy and the configuration that one quench call returned together: the
\* initial quench, or the quench of the last accepted step.
C12_Pairing == BetweenSteps => Markov = markovQuench

\* the second step is complete: it was rejected, after an accepted first step
\* whose candidate differed from it in configuration and in energy
C12_Witness ==
  /\ StepDone /\ stepnum = 2 /\ nAccepted = 1 /\ ~acceptstep
  /\ Candidate.x # Markov.x /\ Candidate.E # Markov.E

\* how many Metropolis tests a list holds
Metropolises(l) == Len(SelectSeq(l, LAMBDA t : t = "metropolis"))

\* C13: __init__ leaves the caller's list of accept tests and list of events as
\* they were, however many drivers are constructed from them; so a driver's own
\* list holds the caller's tests and, unless nometropolis, one Metropolis test.
C13_CallerLists ==
  /\ acceptTestsArg = callerLists.tests
  /\ eventsArg = callerLists.events
  /\ pc # "init" =>
       /\ Metropolises(acceptTests) = (IF nometropolis THEN 0 ELSE 1)
       /\ Len(acceptTests) = Len(callerLists.tests) + Metropolises(acceptTests)
       /\ event_after_step = callerLists.events

\* __init__ has appended the Metropolis test to the driver's list, the caller
\* having passed a test and two events
C13_Witness ==
  /\ pc = "init_energy" /\ ~nometropolis
  /\ Len(callerLists.tests) = 1 /\ Len(callerLists.events) = 2
  /\ Len(acceptTests) = 2

\* C14: an exception of the quench in a step leaves run at once: no accept test,
\* storage call or event of that step is made, no further step follows, and the
\* Markov configuration and energy are those the step began with.
C14_QuenchFailure ==
  /\ (calls # <<>> /\ LastCall.op = "quench_raises") => pc = "raised"
  /\ (pc = "raised" /\ LastCall.op = "quench_raises") =>
       /\ Markov = stepStart
       /\ TestResults = <<>> /\ EventCalls = <<>> /\ CallsOf(calls, "storage") = <<>>
       /\ \A j \in 1..Len(event_after_step) : eventCalls[j] = istep - 1
       /\ ~ENABLED (RunIter \/ McTakeStep \/ McTest \/ RunAccept \/ RunEvent)

\* the quench of the second step has raised, after an accepted first step, in a
\* driver with a storage, an accept test and an event
C14_Witness ==
  /\ pc = "raised" /\ LastCall.op = "quench_raises"
  /\ istep = 2 /\ nAccepted = 1
  /\ storage /\ Len(acceptTests) > 0 /\ Len(event_after_step) > 0

\* __init__ was left by an exception
InitFailed == pc = "init_failed"

TestArgs(t, k, c) ==
  /\ t.i = k
  /\ t.Eold = stepStart.E
  /\ t.E = c.E
  /\ t.x = c.x

\* C16: in a step every accept test is called once, in the order of the list,
\* with (Markov energy before the step, quenched energy, quenched configuration),
\* whatever the tests before it returned: when mcStep returns, as many tests
\* have been called as the list holds.
C16_NoShortCircuit ==
  pc \in {"mc_tests", "accept"} =>
    LET ts == TestResults
        c == Candidate
    IN /\ \A k \in 1..Len(ts) : TestArgs(ts[k], k, c)
       /\ pc = "mc_tests" => Len(ts) = ti - 1
       /\ pc = "accept" => Len(ts) = Len(acceptTests)

\* in the second step, whose candidate differs from the Markov state, the first
\* test returned false and the second was still called
C16_Witness ==
  /\ pc = "accept" /\ stepnum = 2 /\ Len(acceptTests) = 2
  /\ ~TestResults[1].acc /\ Len(TestResults) = 2
  /\ Candidate # stepStart

\* the phases of a step, numbered in the order of the code
Phase(op) ==
  CASE op = "takeStep" -> 1
    [] op = "quench" \/ op = "quench_raises" -> 2
    [] op = "test" \/ op = "test_raises" -> 3
    [] op = "storage" -> 4
    [] op = "event" \/ op = "event_raises" -> 5

\* a step has begun and run has not yet gone on to the next
InStep == InMcStep \/ pc \in {"events", "raised"}

\* C17: the calls of a step are made in the order move, quench, every accept
\* test, then the storage call (only in an accepted step), then the events in
\* the order of their list; the Markov state is replaced before the first event
\* is called; and when the move of a step begins, the step before it has been
\* applied to the Markov state and every event has been called for it.
C17_PhaseOrder ==
  /\ InStep =>
       LET n == Len(calls)
           ph == [k \in 1..n |-> Phase(calls[k].op)]
           m == Markov
       IN /\ \A k \in 1..n - 1 :
               /\ ph[k] <= ph[k + 1]
               /\ (ph[k] # 3 /\ ph[k] # 5) => ph[k] < ph[k + 1]
          /\ n >= 1 => ph[1] = 1
          /\ n >= 2 => ph[2] = 2
          /\ (n >= 1 /\ ph[n] >= 4) =>
               LET ts == TestResults
                   ev == EventCalls
                   acc == \A k \in 1..Len(ts) : ts[k].acc
               IN /\ Len(ts) = Len(acceptTests)
                  /\ m = (IF acc THEN Candidate ELSE stepStart)
                  /\ Len(CallsOf(calls, "storage")) = (IF acc /\ storage THEN 1 ELSE 0)
                  /\ \A k \in 1..Len(ev) :
                       /\ ev[k].i = k
                       /\ ev[k].E = m.E /\ ev[k].x = m.x
  /\ pc = "mc_takeStep" =>
       /\ calls = <<>>
       /\ Markov = markovQuench
       /\ \A j \in 1..Len(event_after_step) : eventCalls[j] = istep - 1

\* the second step of a run is complete, an accepted step whose candidate
\* differs from the Markov state before it: the move, the quench, two tests, the
\* storage and two events were called
C17_Witness ==
  /\ StepDone /\ istep = 2 /\ storage /\ AllTrue
  /\ Len(acceptTests) = 2 /\ Len(event_after_step) = 2
  /\ Candidate # stepStart /\ Len(calls) = 7

\* C18: with a storage, after construction and after each complete step the
\* arguments of the last storage call are the Markov energy and configuration;
\* in an accepted step the storage is called with the candidate, which is then
\* the Markov state and what the events of the step are given.
C18_LastStored ==
  /\ (storage /\ (pc \in {"idle", "loop"} \/ StepDone)) => lastStored = Markov
  /\ (storage /\ pc = "events" /\ acceptstep) =>
       LET st == CallsOf(calls, "storage")
           ev == EventCalls
           c == Candidate
       IN /\ Len(st) = 1
          /\ st[1].E = c.E /\ st[1].x = c.x
          /\ Markov = c
          /\ \A k \in 1..Len(ev) : ev[k].E = st[1].E /\ ev[k].x = st[1].x

\* a rejected second step, whose candidate differs from the Markov state, is
\* complete after an accepted first step: the last storage call is the one of
\* the first step
C18_Witness ==
  /\ storage /\ StepDone /\ istep = 2 /\ ~acceptstep /\ nAccepted = 1
  /\ storageCalls = 3 /\ lastStored = Markov /\ Candidate # Markov
  /\ Len(event_after_step) > 0

\* the collaborators are deterministic: each call has one outcome
Deterministic ==
  /\ potential = "quadratic" /\ takeStep \in {"add_neg", "add_pos"}
  /\ \A k \in 1..Len(acceptTests) : acceptTests[k] = "descent"

\* the one outcome of a call of a deterministic collaborator
Only(S) == CHOOSE v \in S : TRUE

\* lines 138-141 as a function: the flag after the tests from the k-th on
RECURSIVE AcceptFrom(_, _, _, _)
AcceptFrom(acc, k, Eold, E) ==
  IF MoreTests(k, Len(acceptTests), acc)
  THEN AcceptFrom(TestUpdate(acc, Only(TestReturns(acceptTests[k], Eold, E))), k + 1, Eold, E)
  ELSE acc

\* lines 96-102 as a function: the driver __init__ returns
ConstructFn ==
  LET q == Only(QuenchReturns(quenchRoutine, potential, heap[callerCoords]))
  IN [x |-> q.x, E |-> q.E, stepnum |-> 0, stored |-> <<>>, events |-> <<>>]

\* lines 110-119 as a function: the driver after the iteration i of the loop of
\* run, with the storage and event calls of that iteration
StepFn(d, i) ==
  LET moved == Only(TakeStepWrites(takeStep, d.x))
      q == Only(QuenchReturns(quenchRoutine, potential, moved))
      acc == AcceptFrom(InitialAccept, 1, d.E, q.E)
      x2 == Commit(acc, q.x, d.x)
      E2 == CommitE(acc, q.E, d.E)
      a == EventArgs(E2, x2, q.E, q.x, acc)
  IN [x |-> x2, E |-> E2, stepnum |-> NextStepnum(d.stepnum, i),
      stored |-> StoreAccepted(<<>>, acc, storage, q.E, q.x),
      events |-> [j \in 1..Len(event_after_step) |-> Call("event", j, NoE, a.E, a.x, a.acc)]]

\* lines 107-119 as a function: the driver after the iterations i .. n-1 of one
\* call run(n)
RECURSIVE RunFn(_, _, _)
RunFn(d, i, n) == IF i < n THEN RunFn(StepFn(d, i), i + 1, n) ELSE d

\* the steps made since construction, over all calls of run
StepsSoFar == IF pc = "idle" THEN sumN ELSE sumN + istep

\* C19: with deterministic collaborators, after any calls of run that made k
\* steps in all, the Markov state and the step counter are those one call
\* run(k) on a new driver leaves, and the storage and event calls of the k-th
\* step are those of the k-th step of run(k).
C19_Batching ==
  (Deterministic /\ (pc \in {"idle", "loop"} \/ StepDone)) =>
    LET e == RunFn(ConstructFn, 0, StepsSoFar) IN
      /\ Markov.x = e.x /\ Markov.E = e.E
      /\ stepnum = e.stepnum
      /\ StepDone => CallsOf(calls, "storage") = e.stored /\ EventCalls = e.events

\* the first step of a second call of run is complete, a rejected step, after a
\* first call run(1) whose step was accepted, in a driver with a storage, an
\* accept test and two events
C19_Witness ==
  /\ Deterministic /\ StepDone /\ sumN = 1 /\ istep = 1
  /\ ~acceptstep /\ nAccepted = 1
  /\ storage /\ Len(event_after_step) = 2 /\ Len(acceptTests) = 1

\* C20: with no accept test (nometropolis and no test of the caller) every step
\* is accepted: mcStep returns true, after the step the Markov state is the
\* step's quench result, and a storage is called once in every step.
C20_EmptyAccepts ==
  (pc \notin {"init", "init_failed"} /\ acceptTests = <<>>) =>
    /\ pc = "accept" => acceptstep
    /\ pc = "events" =>
         /\ acceptstep /\ Markov = Candidate
         /\ Len(CallsOf(calls, "storage")) = (IF storage THEN 1 ELSE 0)
         /\ nAccepted = stepnum
         /\ storageCalls = (IF storage THEN 2 + stepnum ELSE 0)

\* the second step of a driver without accept tests is complete: a step uphill
\* in energy, accepted and stored
C20_Witness ==
  /\ acceptTests = <<>> /\ StepDone /\ stepnum = 2 /\ storage
  /\ Candidate.E > stepStart.E /\ storageCalls = 4

====
